---- MODULE Spec2Model ----
(***************************************************************************)
(* Brain catalog, ingestion pipeline, retrieval endpoints and batch        *)
(* evaluation of the RAG service.                                          *)
(*                                                                         *)
(* Spec: createBrain and upload requests on an empty store.                *)
(* SpecCatalog: uploads and file listings over two existing brains.        *)
(* SpecQuery: the answer endpoints, answerAll and evaluate-file over a     *)
(* populated store.  SpecRerank: the reranker on its own.  SpecTruncate:   *)
(* clean_and_truncate_input of the evaluator on its own.                   *)
(*                                                                         *)
(* The vector store (Qdrant) is a remote service shared by every request   *)
(* handler: each client call (get_aliases, create_collection,              *)
(* update_collection_aliases, count+scroll, upsert) is one atomic step of  *)
(* the store, and handlers of different requests interleave between their  *)
(* store calls.  Every store call, the PDF chunker and the two embedding   *)
(* calls may raise.                                                        *)
(*                                                                         *)
(* uuid.uuid4() is modelled as a value unique to the request and the call  *)
(* site: brain_id = <<"brain", r>>, pdf_id = <<"pdf", r, i>>,              *)
(* point id = <<"point", r, j>>.                                           *)
(***************************************************************************)
EXTENDS Integers, Sequences, FiniteSets, TLC

\* ---------------------------------------------------------------- bounds
MaxReq == 3
\* Longest list of retrieved documents handed to the reranker.
MaxDocs == 5
\* Longest text handed to clean_and_truncate_input, in characters, and the
\* largest max_tokens.
MaxLen == 5
MaxTokens == 2

\* ---------------------------------------------------------------- inputs
\* The handlers never yield between their (blocking) store calls, so one
\* server process handles one request at a time; requests overlap across
\* the processes of the deployment.
Workers == {"w1", "w2"}
BrainNames == {"alpha", "beta"}
Files == {"paper.pdf", "blank.pdf"}

\* Number of chunks the splitter produces for a file (a PDF without text
\* yields no chunk).
ChunkCount(f) ==
    IF f = "paper.pdf" THEN 2 ELSE IF f = "notes.pdf" THEN 5 ELSE 0

Requests == 1..MaxReq

VARIABLES
    aliases,      \* store: alias_name -> collection_name
    collections,  \* store: names of the content collections
    points,       \* store: points of the content collections
    registry,     \* store: points of the data_registry collection
    req           \* per request handler: kind, position, locals, response,
                  \* and the documents its log reports as skipped

vars == <<aliases, collections, points, registry, req>>

\* ------------------------------------------------------------ responses
\* Mutant of send_response: the content also has a detail field.
send_response_with_detail(success, status, message, data) ==
    [success |-> success, status_code |-> status, message |-> message,
     data |-> data, detail |-> message]

send_response(success, status, message, data) ==
    [success |-> success, status_code |-> status, message |-> message,
     data |-> data]

handle_exception(status, message) ==
    [success |-> FALSE, status_code |-> status, message |-> message,
     detail |-> "An unexpected error occurred."]

NoData == <<>>
NoResponse == [status_code |-> 0]

Idle ==
    [kind |-> "none", pc |-> "idle", brain_name |-> "", brain_id |-> <<>>,
     files |-> <<>>, i |-> 0, file_uuid_mapping |-> <<>>, all_chunks |-> <<>>,
     j |-> 0, invalid_chunks |-> 0, skipped |-> {}, point_count |-> 0,
     response |-> NoResponse]

Init ==
    /\ aliases = <<>>
    /\ collections = {}
    /\ points = {}
    /\ registry = {}
    /\ req = [r \in Requests |-> Idle]

Active == {r \in Requests : req[r].pc \notin {"idle", "done"}}

\* Requests are numbered in the order in which they arrive; each one being
\* handled occupies a worker.
Arrives(r) ==
    /\ req[r].pc = "idle"
    /\ \A q \in Requests : q < r => req[q].pc # "idle"
    /\ Cardinality(Active) < Cardinality(Workers)

Finish(r, resp) ==
    [req EXCEPT ![r].pc = "done", ![r].response = resp]

\* ------------------------------------------------------------ createBrain
uuid_brain(r) == <<"brain", r>>

\* POST /api/create-brain arrives.
CreateNewBrain(r, brain_name) ==
    /\ Arrives(r)
    /\ req' = [req EXCEPT ![r].kind = "create", ![r].pc = "get_aliases",
                          ![r].brain_name = brain_name]
    /\ UNCHANGED <<aliases, collections, points, registry>>

\* Mutant of AliasTaken: the loop compares the alias's collection_name.
AliasTaken_collection_name(brain_name) ==
    \E n \in DOMAIN aliases : aliases[n] = brain_name

\* create_collections, lines 28-31: the loop over the aliases.
AliasTaken(brain_name) == brain_name \in DOMAIN aliases

\* create_collections, lines 21-35: list the aliases; an alias with the
\* requested name returns {} and the controller answers 409.
GetAliases(r) ==
    /\ req[r].pc = "get_aliases"
    /\ IF AliasTaken(req[r].brain_name)
       THEN req' = Finish(r, send_response(FALSE, 409, "already exists", NoData))
       ELSE req' = [req EXCEPT ![r].pc = "create_collection",
                               ![r].brain_id = uuid_brain(r)]
    /\ UNCHANGED <<aliases, collections, points, registry>>

\* create_collections, lines 38-48.
CreateCollection(r) ==
    /\ req[r].pc = "create_collection"
    /\ collections' = collections \cup {req[r].brain_id}
    /\ req' = [req EXCEPT ![r].pc = "create_alias"]
    /\ UNCHANGED <<aliases, points, registry>>

\* The alias table after the store applied CreateAlias(collection, alias):
\* the store maps the alias name to the collection, replacing an older
\* mapping of that name.
PutAlias(al, alias_name, collection_name) ==
    [n \in DOMAIN al \cup {alias_name} |->
        IF n = alias_name THEN collection_name ELSE al[n]]

\* create_collections, lines 52-63, and the controller's 201.
CreateAlias(r) ==
    /\ req[r].pc = "create_alias"
    /\ aliases' = PutAlias(aliases, req[r].brain_name, req[r].brain_id)
    /\ req' = Finish(r, send_response(TRUE, 201, "created", req[r].brain_id))
    /\ UNCHANGED <<collections, points, registry>>

\* Mutant of CreateBrainRaises: a failed alias creation deletes the
\* collection before the exception is re-raised.
CreateBrainRaises_rollback(r) ==
    /\ req[r].pc \in {"get_aliases", "create_collection", "create_alias"}
    /\ collections' = IF req[r].pc = "create_alias"
                      THEN collections \ {req[r].brain_id}
                      ELSE collections
    /\ req' = Finish(r, handle_exception(500, "Error while creating collections"))
    /\ UNCHANGED <<aliases, points, registry>>

\* A store call of create_collections raises: the exception is logged and
\* re-raised (lines 65-69), the controller answers 500 (lines 63-67).
CreateBrainRaises(r) ==
    /\ req[r].pc \in {"get_aliases", "create_collection", "create_alias"}
    /\ req' = Finish(r, handle_exception(500, "Error while creating collections"))
    /\ UNCHANGED <<aliases, collections, points, registry>>

\* ---------------------------------------------------------------- upload
None == "None"

uuid_pdf(r, i) == <<"pdf", r, i>>
uuid_point(r, j) == <<"point", r, j>>

\* Mutant of check_files: the file counts as existing from the second
\* registry point on.
check_files_second_point(file_name, brain_id) ==
    Cardinality({e \in registry : e.payload.file_name = file_name
                                  /\ e.payload.brain_id = brain_id}) > 1

\* Collection.check_files: count the registry (a count of 0 becomes a scroll
\* limit of 1), scroll it with the filter file_name = .. AND brain_id = ..,
\* and report whether a point came back.  The limit is the size of the
\* whole registry, so the scroll returns every match.
check_files(file_name, brain_id) ==
    LET point_count == IF Cardinality(registry) = 0 THEN 1
                       ELSE Cardinality(registry)
        existing_file_points ==
            {e \in registry : e.payload.file_name = file_name
                              /\ e.payload.brain_id = brain_id}
    IN  /\ Cardinality(existing_file_points) <= point_count
        /\ Cardinality(existing_file_points) > 0

\* PdfService.extract_content_from_pdf and the metadata update of
\* process_files, lines 135-145.
extract_content_from_pdf(file, pdf_id, brain_id) ==
    [k \in 1..ChunkCount(file) |->
        [page_content |-> <<file, k>>,
         metadata |-> [pdf_id |-> pdf_id, file_name |-> file,
                       brain_id |-> brain_id]]]

\* create_dense_vector / create_sparse_vector when the model answers.
create_dense_vector(text) == <<"dense", text>>
create_sparse_vector(text) == <<"sparse", text>>

\* The bodies of the upload requests: one file, two files in either order,
\* the same file twice.
FileSeqs ==
    {<<"paper.pdf">>, <<"blank.pdf">>,
     <<"paper.pdf", "blank.pdf">>, <<"blank.pdf", "paper.pdf">>,
     <<"paper.pdf", "paper.pdf">>}

\* The brain ids that clients hold: the data of the 201 responses of
\* createBrain.
KnownBrains ==
    {req[q].response.data :
        q \in {x \in Requests : /\ req[x].kind = "create"
                                /\ req[x].pc = "done"
                                /\ req[x].response.status_code = 201}}

\* POST /api/{brain_id}/upload arrives.
ProcessFiles(r, files, brain_id) ==
    /\ Arrives(r)
    /\ req' = [req EXCEPT ![r].kind = "upload", ![r].pc = "check_files",
                          ![r].brain_id = brain_id, ![r].files = files,
                          ![r].i = 1]
    /\ UNCHANGED <<aliases, collections, points, registry>>

\* process_files, lines 115 and 156-170: the next file of the request, or,
\* after the last one, the indexing of all_chunks, or 404 when there is no
\* chunk to index.
EndOfFile(rec) ==
    IF rec.i < Len(rec.files)
    THEN [rec EXCEPT !.i = @ + 1, !.pc = "check_files"]
    ELSE IF rec.all_chunks # <<>>
         THEN [rec EXCEPT !.pc = "index", !.j = 1]
         ELSE [rec EXCEPT !.pc = "done",
                          !.response = send_response(FALSE, 404,
                                           "No chunks to index.", NoData)]

\* file_uuid_mapping[file.filename] = pdf_id (process_files, line 129).
SetItem(mapping, key, value) ==
    [k \in DOMAIN mapping \cup {key} |->
        IF k = key THEN value ELSE mapping[k]]

\* process_files, lines 117-152: the duplicate check; a new file gets its
\* pdf_id and is chunked, the chunks get their metadata and join all_chunks.
CheckFiles(r) ==
    LET rec == req[r]
        file == rec.files[rec.i]
        pdf_id == uuid_pdf(r, rec.i)
        chunks == extract_content_from_pdf(file, pdf_id, rec.brain_id)
    IN  /\ rec.pc = "check_files"
        /\ IF check_files(file, rec.brain_id)
           THEN req' = [req EXCEPT ![r] = EndOfFile(rec)]
           ELSE req' = [req EXCEPT ![r].pc = "update_registry",
                            ![r].file_uuid_mapping = SetItem(@, file, pdf_id),
                            ![r].all_chunks = @ \o chunks]
        /\ UNCHANGED <<aliases, collections, points, registry>>

\* check_files raises, or it finds the file new and
\* extract_content_from_pdf raises: the handler of process_files answers 500
\* (lines 172-174).  The pdf_id was assigned before the chunker ran.
CheckFilesRaises(r, in_extract) ==
    LET rec == req[r]
        file == rec.files[rec.i]
    IN  /\ rec.pc = "check_files"
        /\ in_extract => ~check_files(file, rec.brain_id)
        /\ req' = [req EXCEPT
                     ![r].pc = "done",
                     ![r].file_uuid_mapping =
                         IF in_extract THEN SetItem(@, file, uuid_pdf(r, rec.i))
                         ELSE @,
                     ![r].response = handle_exception(500,
                                         "occured during PDF Processing.")]
        /\ UNCHANGED <<aliases, collections, points, registry>>

\* Collection.update_registry (line 155 of process_files).
UpdateRegistry(r) ==
    LET rec == req[r]
        file == rec.files[rec.i]
        payload == [file_name |-> file, pdf_id |-> rec.file_uuid_mapping[file],
                    brain_id |-> rec.brain_id]
    IN  /\ rec.pc = "update_registry"
        /\ registry' = registry \cup
                {[id |-> <<"registry", r, rec.i>>, payload |-> payload]}
        /\ req' = [req EXCEPT ![r] = EndOfFile(rec)]
        /\ UNCHANGED <<aliases, collections, points>>

\* update_registry raises (lines 107-111): the handler of process_files
\* answers 500 (lines 172-174).
UpdateRegistryRaises(r) ==
    /\ req[r].pc = "update_registry"
    /\ req' = Finish(r, handle_exception(500, "occured during PDF Processing."))
    /\ UNCHANGED <<aliases, collections, points, registry>>

\* Mutant of BothEmbedded: one embedding is enough.
BothEmbedded_either(dense_embedding, sparse_embedding) ==
    dense_embedding # None \/ sparse_embedding # None

\* The condition of index_hybrid_collection, line 50.
BothEmbedded(dense_embedding, sparse_embedding) ==
    dense_embedding # None /\ sparse_embedding # None

\* Mutant of IndexResponse: one invalid chunk still answers 201.
IndexResponse_tolerates_one(invalid_chunks) ==
    IF invalid_chunks > 1
    THEN send_response(FALSE, 422, "PDF Content not supported for processing.",
                       NoData)
    ELSE send_response(TRUE, 201, "Files Processed Successfully.", NoData)

\* index_hybrid_collection, lines 73-76, and process_files, lines 160-167.
IndexResponse(invalid_chunks) ==
    IF invalid_chunks > 0
    THEN send_response(FALSE, 422, "PDF Content not supported for processing.",
                       NoData)
    ELSE send_response(TRUE, 201, "Files Processed Successfully.", NoData)

\* index_hybrid_collection, one turn of the loop of lines 31-71: both
\* embeddings are attempted (a failure becomes None), the point is upserted
\* when both exist, otherwise the chunk is logged as skipped and counted as
\* invalid.
IndexChunk(r, dense_ok, sparse_ok) ==
    LET rec == req[r]
        doc == rec.all_chunks[rec.j]
        dense_embedding == IF dense_ok THEN create_dense_vector(doc.page_content)
                           ELSE None
        sparse_embedding == IF sparse_ok
                            THEN create_sparse_vector(doc.page_content)
                            ELSE None
        upsert == BothEmbedded(dense_embedding, sparse_embedding)
        invalid == IF upsert THEN rec.invalid_chunks ELSE rec.invalid_chunks + 1
        log == IF upsert THEN rec.skipped ELSE rec.skipped \cup {rec.j}
    IN  /\ rec.pc = "index"
        /\ points' = IF upsert
                     THEN points \cup
                          {[id |-> uuid_point(r, rec.j),
                            collection |-> rec.brain_id,
                            vector |-> [dense |-> dense_embedding,
                                        sparse |-> sparse_embedding],
                            payload |-> [content |-> doc.page_content,
                                         metadata |-> doc.metadata]]}
                     ELSE points
        /\ req' = IF rec.j < Len(rec.all_chunks)
                  THEN [req EXCEPT ![r].j = @ + 1, ![r].invalid_chunks = invalid,
                                   ![r].skipped = log]
                  ELSE [req EXCEPT ![r].pc = "done",
                                   ![r].invalid_chunks = invalid,
                                   ![r].skipped = log,
                                   ![r].response = IndexResponse(invalid)]
        /\ UNCHANGED <<aliases, collections, registry>>

\* The upsert of line 51 raises: the handler of line 77 logs it, the function
\* falls off its end and returns None, the controller answers 422.
UpsertRaises(r) ==
    /\ req[r].pc = "index"
    /\ req' = Finish(r, send_response(FALSE, 422,
                        "PDF Content not supported for processing.", NoData))
    /\ UNCHANGED <<aliases, collections, points, registry>>

\* ------------------------------------------------------------------ next
Next ==
    \/ \E r \in Requests, n \in BrainNames : CreateNewBrain(r, n)
    \/ \E r \in Requests : GetAliases(r)
    \/ \E r \in Requests : CreateCollection(r)
    \/ \E r \in Requests : CreateAlias(r)
    \/ \E r \in Requests : CreateBrainRaises(r)
    \/ \E r \in Requests, fs \in FileSeqs, b \in KnownBrains :
           ProcessFiles(r, fs, b)
    \/ \E r \in Requests : CheckFiles(r)
    \/ \E r \in Requests, x \in BOOLEAN : CheckFilesRaises(r, x)
    \/ \E r \in Requests : UpdateRegistry(r)
    \/ \E r \in Requests : UpdateRegistryRaises(r)
    \/ \E r \in Requests, d \in BOOLEAN, s \in BOOLEAN : IndexChunk(r, d, s)
    \/ \E r \in Requests : UpsertRaises(r)

Spec == Init /\ [][Next]_vars

\* ------------------------------------------------------------ list files
\* The brains of the catalog specification were created by two createBrain
\* calls that returned before the requests of the model arrive.
CatalogBrains == {uuid_brain(0), uuid_brain(-1)}

InitCatalog ==
    /\ aliases = [n \in BrainNames |->
                     IF n = "alpha" THEN uuid_brain(0) ELSE uuid_brain(-1)]
    /\ collections = CatalogBrains
    /\ points = {}
    /\ registry = {}
    /\ req = [r \in Requests |-> Idle]

\* GET /api/{brain_id}/list-files arrives.
ListFiles(r, brain_id) ==
    /\ Arrives(r)
    /\ req' = [req EXCEPT ![r].kind = "list_files", ![r].pc = "list_count",
                          ![r].brain_id = brain_id]
    /\ UNCHANGED <<aliases, collections, points, registry>>

\* Collection.list_files, lines 125-130: the size of the registry, a count
\* of 0 becomes 1.
ListFilesCount(r) ==
    /\ req[r].pc = "list_count"
    /\ req' = [req EXCEPT ![r].pc = "list_scroll",
                  ![r].point_count = IF Cardinality(registry) = 0 THEN 1
                                     ELSE Cardinality(registry)]
    /\ UNCHANGED <<aliases, collections, points, registry>>

\* Mutant of list_files_filter: the scroll has no filter.
list_files_filter_none(brain_id) == registry

\* The points that the scroll filter of list_files selects (lines 133-142).
list_files_filter(brain_id) ==
    {e \in registry : e.payload.brain_id = brain_id}

\* list_files, lines 145-152: file_name and file_id of the returned points.
file_info(response) ==
    {[file_name |-> e.payload.file_name, file_id |-> e.payload.pdf_id] :
        e \in response}

Min(a, b) == IF a < b THEN a ELSE b

\* list_files, lines 133-155, and the controller's list_files, lines 87-94:
\* the scroll returns at most point_count of the selected points (the store
\* orders them by their random ids); an empty list answers 404.
ListFilesScroll(r, response) ==
    LET selected == list_files_filter(req[r].brain_id)
    IN  /\ req[r].pc = "list_scroll"
        /\ response \subseteq selected
        /\ Cardinality(response)
               = Min(req[r].point_count, Cardinality(selected))
        /\ req' = Finish(r,
                    IF file_info(response) # {}
                    THEN send_response(TRUE, 200, "Brains fetched successfully.",
                                       file_info(response))
                    ELSE send_response(FALSE, 404,
                             "Please upload some PDFs in the selected Brain.",
                             NoData))
        /\ UNCHANGED <<aliases, collections, points, registry>>

\* A store call of list_files raises: the function returns [] (lines
\* 156-158) and the controller answers 404.
ListFilesRaises(r) ==
    /\ req[r].pc \in {"list_count", "list_scroll"}
    /\ req' = Finish(r, send_response(FALSE, 404,
                        "Please upload some PDFs in the selected Brain.",
                        NoData))
    /\ UNCHANGED <<aliases, collections, points, registry>>

\* The bodies of the uploads of the catalog specification: one file each.
CatalogFileSeqs == {<<f>> : f \in Files}

\* Uploads and file listings over the two brains; the embedding models
\* answer (the store calls may raise).
NextCatalog ==
    \/ \E r \in Requests, fs \in CatalogFileSeqs, b \in CatalogBrains :
           ProcessFiles(r, fs, b)
    \/ \E r \in Requests : CheckFiles(r)
    \/ \E r \in Requests, x \in BOOLEAN : CheckFilesRaises(r, x)
    \/ \E r \in Requests : UpdateRegistry(r)
    \/ \E r \in Requests : UpdateRegistryRaises(r)
    \/ \E r \in Requests : IndexChunk(r, TRUE, TRUE)
    \/ \E r \in Requests : UpsertRaises(r)
    \/ \E r \in Requests, b \in CatalogBrains : ListFiles(r, b)
    \/ \E r \in Requests : ListFilesCount(r)
    \/ \E r \in Requests, response \in SUBSET registry :
           ListFilesScroll(r, response)
    \/ \E r \in Requests : ListFilesRaises(r)

SpecCatalog == InitCatalog /\ [][NextCatalog]_vars

\* ------------------------------------------------------------- retrieval
\* The store of the retrieval specification, as earlier uploads left it:
\* brain alpha holds paper.pdf (2 points) and notes.pdf (5 points), brain
\* beta holds paper.pdf (2 points) and blank.pdf (registered, no point).
Ingested(r, file, brain_id) ==
    {[id |-> uuid_point(r, k),
      collection |-> brain_id,
      vector |-> [dense |-> create_dense_vector(<<file, k>>),
                  sparse |-> create_sparse_vector(<<file, k>>)],
      payload |-> [content |-> <<file, k>>,
                   metadata |-> extract_content_from_pdf(
                                    file, uuid_pdf(r, 1), brain_id)[k].metadata]] :
        k \in 1..ChunkCount(file)}

Registered(r, file, brain_id) ==
    [id |-> <<"registry", r, 1>>,
     payload |-> [file_name |-> file, pdf_id |-> uuid_pdf(r, 1),
                  brain_id |-> brain_id]]

Uploaded ==
    {<<-2, "paper.pdf", uuid_brain(0)>>, <<-3, "notes.pdf", uuid_brain(0)>>,
     <<-4, "paper.pdf", uuid_brain(-1)>>, <<-5, "blank.pdf", uuid_brain(-1)>>}

\* ScoredPoint.payload['content'] of a retrieved point.
Content(doc) == doc.payload.content

\* The store's ranking of the points of a result, by similarity to the
\* query vector: a fixed total order per kind of query, ascending chunk
\* number for dense and fused queries, descending for sparse ones.
Closer(using, p, q) ==
    LET kp == Content(p)[2]
        kq == Content(q)[2]
    IN  IF kp # kq THEN (IF using = "sparse" THEN kp > kq ELSE kp < kq)
        ELSE IF Content(p)[1] # Content(q)[1]
             THEN Content(p)[1] = "paper.pdf"
             ELSE p.id[2] > q.id[2]

Ranked(using, S) ==
    [n \in 1..Cardinality(S) |->
        CHOOSE p \in S :
            Cardinality({q \in S : q # p /\ Closer(using, q, p)}) = n - 1]

Take(seq, limit) == SubSeq(seq, 1, Min(limit, Len(seq)))

\* Mutant of query_points: the query has no filter.
query_points_no_filter(collection_name, using, pdf_id, limit) ==
    Take(Ranked(using, {p \in points : p.collection = collection_name}), limit)

\* client.query_points(collection_name, ..., query_filter = metadata.pdf_id
\* matches pdf_id, limit): the best `limit` points of the collection that
\* pass the filter.
query_points(collection_name, using, pdf_id, limit) ==
    Take(Ranked(using, {p \in points : /\ p.collection = collection_name
                                       /\ p.payload.metadata.pdf_id = pdf_id}),
         limit)

\* ---------------------------------------------------------------- rerank
\* Mutant of insort: a pair goes before the pairs of equal score.
insort_before_equal(ranked, pair) ==
    LET n == Cardinality({i \in 1..Len(ranked) : ranked[i][1] > pair[1]})
    IN  SubSeq(ranked, 1, n) \o <<pair>> \o SubSeq(ranked, n + 1, Len(ranked))

\* One insertion of sorted(..., reverse=True, key=lambda x: x[0]): the sort
\* is stable, so a pair goes behind every pair whose score is not lower.
insort(ranked, pair) ==
    LET n == Cardinality({i \in 1..Len(ranked) : ranked[i][1] >= pair[1]})
    IN  SubSeq(ranked, 1, n) \o <<pair>> \o SubSeq(ranked, n + 1, Len(ranked))

RECURSIVE sorted_reverse(_)
sorted_reverse(pairs) ==
    IF pairs = <<>> THEN <<>>
    ELSE insort(sorted_reverse(SubSeq(pairs, 1, Len(pairs) - 1)),
                pairs[Len(pairs)])

\* rerank_docs, line 37: the slice [:4].
TopK == 4

\* rerank_docs, lines 34-37: zip the scores with the documents, sort by
\* score, highest first, drop the scores and keep the first four.
top_4_documents(scores, documents) ==
    LET pairs == [i \in 1..Min(Len(scores), Len(documents)) |->
                     <<scores[i], documents[i]>>]
        ranked == sorted_reverse(pairs)
        ranked_documents == [i \in 1..Len(ranked) |-> ranked[i][2]]
    IN  SubSeq(ranked_documents, 1, Min(TopK, Len(ranked_documents)))

\* The inputs of the rerank specification: a retrieved list of n distinct
\* points and the score the cross-encoder gives each of them.
ScoredPoints(n) ==
    [i \in 1..n |-> [id |-> uuid_point(-3, i),
                     payload |-> [content |-> <<"notes.pdf", i>>]]]

Scores == {1, 2, 3}

InitRerank ==
    /\ aliases = <<>>
    /\ collections = {}
    /\ points = {}
    /\ registry = {}
    /\ \E n \in 0..MaxDocs, scores \in UNION {[1..k -> Scores] : k \in 0..MaxDocs} :
          /\ Len(scores) = n
          /\ req = [pc |-> "rerank_docs", documents |-> ScoredPoints(n),
                    scores |-> scores, top_4_documents |-> <<>>]

\* LLMManager.rerank_docs once CROSS_ENCODER_MODEL.predict has returned
\* the scores.
RerankDocs ==
    /\ req.pc = "rerank_docs"
    /\ req' = [req EXCEPT !.pc = "done",
                  !.top_4_documents = top_4_documents(req.scores, req.documents)]
    /\ UNCHANGED <<aliases, collections, points, registry>>

NextRerank == RerankDocs

SpecRerank == InitRerank /\ [][NextRerank]_vars

\* ------------------------------------------------------------- endpoints
\* The relevance the cross-encoder predicts for (query, text): a fixed
\* function of its two arguments.
CROSS_ENCODER_MODEL(query, text) ==
    IF query[2] = "summary" THEN text[2] % 2 ELSE text[2]

\* LLMManager.rerank_docs.
rerank_docs(documents, query) ==
    top_4_documents([i \in 1..Len(documents) |->
                        CROSS_ENCODER_MODEL(query, Content(documents[i]))],
                    documents)

\* HybridRagService.hybrid_search: the fused query with the pdf_id filter,
\* limit 20, then the reranker (also on an empty result).
hybrid_search(query, selected_pdf_id, brain_id) ==
    rerank_docs(query_points(brain_id, "fusion", selected_pdf_id, 20), query)

\* HybridRagService.sparse_search: the sparse query with the pdf_id filter
\* and the client's default limit of 10; no reranker.
sparse_search(query, pdf_id, brain_id) ==
    query_points(brain_id, "sparse", pdf_id, 10)

\* dense_search(dense_query, pdf_id, brain_id) as the controller calls it:
\* the dense query with the pdf_id filter, limit 20.  (The DenseRagService
\* under src/ has another constructor and a dense_search(query) of one
\* argument; with it the call raises, which EndpointRaises covers.)
dense_search(dense_query, pdf_id, brain_id) ==
    query_points(brain_id, "dense", pdf_id, 20)

\* Mutant of generate_response: no completion for an empty context.
generate_response_needs_context(service, question, context) ==
    [content |-> IF context = <<>> THEN <<"completion">>
                 ELSE <<"completion", service, question, context>>]

\* generate_response of the three services: the prompt template of the
\* service filled with question and context, answered by the LLM; the
\* completion is a fixed function of the prompt.
generate_response(service, question, context) ==
    [content |-> <<"completion", service, question, context>>]

Service(endpoint) ==
    CASE endpoint = "hybrid" -> "hybrid_rag_service"
      [] endpoint = "hyde" -> "hyde_service"
      [] endpoint = "dense" -> "dense_rag_service"
      [] endpoint = "sparse" -> "hybrid_rag_service"

\* The data of the 200 response of each endpoint.
EndpointData(endpoint, response, combined_context) ==
    CASE endpoint = "hybrid" ->
             [hybrid_rag_response |-> response,
              hybrid_retriever_response |-> combined_context]
      [] endpoint = "hyde" ->
             [hyde_rag_response |-> response,
              hyde_retriever_response |-> combined_context]
      [] endpoint = "dense" ->
             [dense_rag_response |-> response,
              dense_retriever_response |-> combined_context]
      [] endpoint = "sparse" ->
             [sparse_rag_response |-> response,
              sparse_retriever_response |-> combined_context]

\* JSONResponse(content, status_code): the body is the encoded content.
json_dumps(content) == <<"json", content>>
json_loads(body) == body[2]
JSONResponse(content) ==
    [status_code |-> content.status_code, body |-> json_dumps(content)]

\* dict.get(key, default)
Get(dict, key, default) == IF key \in DOMAIN dict THEN dict[key] ELSE default

Strategies == {"hybrid", "hyde", "dense", "sparse"}
\* The questions of the clients (a text, like the content of a chunk and
\* the completion of the LLM).
Queries == {<<"question", "summary">>, <<"question", "details">>}

PdfOf(r, file) == [file_name |-> file, file_id |-> uuid_pdf(r, 1)]

\* The selected_pdfs lists of the requests: none, each file of brain alpha,
\* both, and the paper.pdf or the blank.pdf of brain beta.
SelectedPdfs ==
    {<<>>, <<PdfOf(-2, "paper.pdf")>>, <<PdfOf(-3, "notes.pdf")>>,
     <<PdfOf(-2, "paper.pdf"), PdfOf(-3, "notes.pdf")>>,
     <<PdfOf(-4, "paper.pdf")>>, <<PdfOf(-5, "blank.pdf")>>}

Payloads == [query : Queries, selected_pdfs : SelectedPdfs]

\* One server process: the second request is handled when the first one
\* has returned.
QueryRequests == {"first", "second"}

NoResponses == [s \in Strategies |-> NoResponse]

QueryIdle ==
    [kind |-> "none", pc |-> "idle", brain_id |-> <<>>, payload |-> <<>>,
     file |-> <<>>, endpoint |-> "none", query |-> "",
     selected_pdf_ids |-> <<>>, i |-> 0, hypothetical_document |-> None,
     dense_query |-> None, context |-> <<>>, combined_context |-> <<>>,
     responses |-> NoResponses, index |-> 0, results |-> NoResponse,
     response |-> NoResponse]

InitQuery ==
    /\ aliases = [n \in BrainNames |->
                     IF n = "alpha" THEN uuid_brain(0) ELSE uuid_brain(-1)]
    /\ collections = CatalogBrains
    /\ points = UNION {Ingested(u[1], u[2], u[3]) : u \in Uploaded}
    /\ registry = {Registered(u[1], u[2], u[3]) : u \in Uploaded}
    /\ req = [r \in QueryRequests |-> QueryIdle]

QueryArrives(r) ==
    /\ req[r].pc = "idle"
    /\ r = "second" => req["first"].pc = "done"

\* The handler returns: its locals are gone, the request and its response
\* remain.
QueryFinish(rec, resp) ==
    [QueryIdle EXCEPT !.kind = rec.kind, !.brain_id = rec.brain_id,
                      !.payload = rec.payload, !.file = rec.file,
                      !.pc = "done", !.response = resp]

\* The loop `for pdf_id in selected_pdf_ids` and what follows it.
Loop(rec) ==
    IF rec.i <= Len(rec.selected_pdf_ids)
    THEN [rec EXCEPT !.pc = "search"]
    ELSE [rec EXCEPT !.pc = "generate"]

\* The head of an endpoint (e.g. hybrid_rag_endpoint, lines 181-189):
\* query and selected_pdf_ids from the payload, an empty combined_context.
Enter(rec, endpoint) ==
    LET selected_pdfs == rec.payload.selected_pdfs
        locals == [rec EXCEPT
                     !.endpoint = endpoint,
                     !.query = rec.payload.query,
                     !.selected_pdf_ids =
                         [k \in 1..Len(selected_pdfs) |-> selected_pdfs[k].file_id],
                     !.i = 1, !.context = <<>>, !.combined_context = <<>>,
                     !.hypothetical_document = None, !.dense_query = None]
    IN  CASE endpoint = "hyde" -> [locals EXCEPT !.pc = "hypothetical"]
          [] endpoint = "dense" -> [locals EXCEPT !.pc = "dense_query"]
          [] OTHER -> Loop(locals)

\* The brain ids of the requests: the two brains and an id that names no
\* collection.
QueryBrains == CatalogBrains \cup {uuid_brain(-9)}

\* The client sends its question twice, to the same or to another
\* endpoint: the second request has the brain and the payload of the first.
Resent(r, brain_id, payload) ==
    r = "second" => /\ req["first"].kind # "evaluate_file"
                    /\ req["first"].brain_id = brain_id
                    /\ req["first"].payload = payload

\* POST /api/{brain_id}/hybrid, /hyde, /dense, /sparse or /all arrives;
\* all_endpoints begins with the hybrid endpoint (line 371).
Answer(r, kind, brain_id, payload) ==
    /\ QueryArrives(r)
    /\ Resent(r, brain_id, payload)
    /\ req' = [req EXCEPT ![r] =
                  Enter([@ EXCEPT !.kind = kind, !.brain_id = brain_id,
                                  !.payload = payload],
                        IF kind = "all" THEN "hybrid" ELSE kind)]
    /\ UNCHANGED <<aliases, collections, points, registry>>

\* hyde_rag_endpoint, lines 233-234.
HypotheticalDocument(r) ==
    /\ req[r].pc = "hypothetical"
    /\ req' = [req EXCEPT
                 ![r].hypothetical_document =
                     generate_response("hyde_service", req[r].query, <<>>).content,
                 ![r].pc = "dense_query"]
    /\ UNCHANGED <<aliases, collections, points, registry>>

\* hyde_rag_endpoint, line 237, and dense_rag_endpoint, line 284: the
\* dense vector of the query.
DenseQuery(r) ==
    /\ req[r].pc = "dense_query"
    /\ req' = [req EXCEPT
                 ![r] = Loop([@ EXCEPT
                                !.dense_query =
                                    create_dense_vector(req[r].query)])]
    /\ UNCHANGED <<aliases, collections, points, registry>>

\* One turn of the loop over selected_pdf_ids (hybrid 190-198, hyde
\* 240-251, dense 287-298, sparse 333-341): the search of the endpoint for
\* this pdf_id; hyde and dense rerank a result that is not empty; the
\* content of each document of `context` is appended to combined_context.
\* The store raises for a collection that does not exist.
Search(r) ==
    LET rec == req[r]
        pdf_id == rec.selected_pdf_ids[rec.i]
        found == dense_search(rec.dense_query, pdf_id, rec.brain_id)
        context ==
            CASE rec.endpoint = "hybrid" ->
                     hybrid_search(rec.query, pdf_id, rec.brain_id)
              [] rec.endpoint = "sparse" ->
                     sparse_search(rec.query, pdf_id, rec.brain_id)
              [] OTHER ->
                     IF found # <<>> THEN rerank_docs(found, rec.query)
                     ELSE <<>>
    IN  /\ rec.pc = "search"
        /\ rec.brain_id \in collections
        /\ req' = [req EXCEPT ![r] =
                      Loop([rec EXCEPT
                              !.context = context,
                              !.combined_context =
                                  @ \o [k \in 1..Len(context) |->
                                           Content(context[k])],
                              !.i = @ + 1])]
        /\ UNCHANGED <<aliases, collections, points, registry>>

\* Mutant of NextEndpoint: the dense endpoint is awaited before the hyde
\* endpoint.
NextEndpoint_dense_first(endpoint) ==
    CASE endpoint = "hybrid" -> "dense"
      [] endpoint = "dense" -> "hyde"
      [] endpoint = "hyde" -> "sparse"
      [] endpoint = "sparse" -> "none"

\* all_endpoints, lines 371-391: the order of the awaited endpoint calls.
NextEndpoint(endpoint) ==
    CASE endpoint = "hybrid" -> "hyde"
      [] endpoint = "hyde" -> "dense"
      [] endpoint = "dense" -> "sparse"
      [] endpoint = "sparse" -> "none"

\* An endpoint returns its JSONResponse: to the client, or to all_endpoints,
\* which awaits the next endpoint or goes on to combine the four responses,
\* or to evaluate_file (line 496).
Return(rec, content) ==
    IF rec.kind = "all"
    THEN LET got == [rec EXCEPT !.responses[rec.endpoint] = JSONResponse(content)]
         IN  IF NextEndpoint(rec.endpoint) = "none"
             THEN [got EXCEPT !.pc = "combine", !.endpoint = "none"]
             ELSE Enter(got, NextEndpoint(rec.endpoint))
    ELSE IF rec.kind = "evaluate_file"
         THEN [rec EXCEPT !.results = JSONResponse(content), !.pc = "results"]
         ELSE QueryFinish(rec, content)

\* The end of an endpoint (hybrid 203-217, hyde 257-269, dense 304-315,
\* sparse 345-360): the answer of the LLM and the 200 response.
Generate(r) ==
    LET rec == req[r]
        response == generate_response(Service(rec.endpoint), rec.query,
                                      rec.combined_context).content
    IN  /\ rec.pc = "generate"
        /\ req' = [req EXCEPT ![r] =
                      Return(rec, send_response(TRUE, 200,
                                 "Response generated successfully.",
                                 EndpointData(rec.endpoint, response,
                                              rec.combined_context)))]
        /\ UNCHANGED <<aliases, collections, points, registry>>

\* A call of an endpoint raises (the LLM, an embedding model, the
\* reranker, the store): the endpoint catches it and returns
\* handle_exception(500, ...) (lines 218-220, 270-271, 316-317, 362-363).
EndpointRaises(r) ==
    /\ req[r].pc \in {"hypothetical", "dense_query", "search", "generate"}
    /\ req' = [req EXCEPT ![r] =
                  Return(req[r], handle_exception(500,
                                     "Error generating response"))]
    /\ UNCHANGED <<aliases, collections, points, registry>>

\* Mutant of response_data: the hybrid entry is read from the hyde
\* response.
response_data_hyde_for_hybrid(responses) ==
    [hybrid |-> Get(json_loads(responses["hyde"].body), "data", <<>>),
     hyde |-> Get(json_loads(responses["hyde"].body), "data", <<>>),
     dense |-> Get(json_loads(responses["dense"].body), "data", <<>>),
     sparse |-> Get(json_loads(responses["dense"].body), "data", <<>>)]

\* all_endpoints, lines 393-421: each body is decoded (no body is empty)
\* and its 'data' taken, {} when there is none; the sparse entry is decoded
\* from the body of the dense response (line 410).
response_data(responses) ==
    [hybrid |-> Get(json_loads(responses["hybrid"].body), "data", <<>>),
     hyde |-> Get(json_loads(responses["hyde"].body), "data", <<>>),
     dense |-> Get(json_loads(responses["dense"].body), "data", <<>>),
     sparse |-> Get(json_loads(responses["dense"].body), "data", <<>>)]

\* all_endpoints, lines 393-428.
Combine(r) ==
    /\ req[r].pc = "combine"
    /\ req' = [req EXCEPT ![r] =
                  QueryFinish(req[r],
                      send_response(TRUE, 200, "Response generated successfully.",
                                    response_data(req[r].responses)))]
    /\ UNCHANGED <<aliases, collections, points, registry>>

\* ---------------------------------------------------------- evaluate file
\* evaluate_file, lines 469-480: the brain and the selected files are
\* literals of the handler; here they name brain alpha and its two files.
EvalBrainId == uuid_brain(0)
EvalSelectedPdfs == <<PdfOf(-2, "paper.pdf"), PdfOf(-3, "notes.pdf")>>

NaN == "NaN"
Row(question, ground_truth) ==
    ("Question" :> question) @@ ("Ground Truth" :> ground_truth)

\* The uploaded workbooks: their file name and the rows of the sheet
\* "LLM Eval".
EvalFiles ==
    [filename : {<<"test_set", ".xlsx">>, <<"test_set", ".csv">>},
     llm_sheet : {<<>>, <<Row(<<"question", "summary">>, "gt1")>>,
                  <<Row(<<"question", "summary">>, "gt1"),
                    Row(<<"question", "details">>, "gt2")>>,
                  <<Row(<<"question", "summary">>, NaN),
                    Row(<<"question", "details">>, "gt2")>>}]

HTTPException(status_code, detail) ==
    [status_code |-> status_code, detail |-> detail]

\* The response of the framework to an exception no handler caught.
InternalServerError == [status_code |-> 500, body |-> "Internal Server Error"]

\* POST /api/evaluate-file arrives (lines 448-467).
EvaluateFile(r, file) ==
    /\ QueryArrives(r)
    /\ req' = [req EXCEPT ![r] =
                  IF file.filename[2] # ".xlsx"
                  THEN QueryFinish([@ EXCEPT !.kind = "evaluate_file",
                                             !.file = file],
                           HTTPException(400, "Only .xlsx files are supported"))
                  ELSE [@ EXCEPT !.kind = "evaluate_file", !.file = file,
                                 !.pc = "iterrows", !.index = 1]]
    /\ UNCHANGED <<aliases, collections, points, registry>>

\* evaluate_file, lines 483-496 and 554-573: the next row of the sheet is
\* sent to hybrid_rag_endpoint; after the last row the sheets are written
\* and returned.
Iterrows(r) ==
    LET rec == req[r]
        llm_sheet == rec.file.llm_sheet
    IN  /\ rec.pc = "iterrows"
        /\ req' = [req EXCEPT ![r] =
                      IF rec.index > Len(llm_sheet)
                      THEN QueryFinish(rec,
                               [status_code |-> 200,
                                filename |-> "evaluated_test_set.xlsx",
                                llm_sheet |-> llm_sheet])
                      ELSE Enter([rec EXCEPT
                                    !.brain_id = EvalBrainId,
                                    !.payload =
                                        [query |-> llm_sheet[rec.index]["Question"],
                                         selected_pdfs |-> EvalSelectedPdfs]],
                                 "hybrid")]
        /\ UNCHANGED <<aliases, collections, points, registry>>

\* evaluate_file, line 497: `results` is the JSONResponse that
\* hybrid_rag_endpoint returned, which has no method `get`: the
\* AttributeError is caught nowhere and ends the request.  The rest of the
\* loop body (lines 499-552) is never reached.
ResultsGet(r) ==
    /\ req[r].pc = "results"
    /\ "body" \in DOMAIN req[r].results
    /\ req' = [req EXCEPT ![r] = QueryFinish(req[r], InternalServerError)]
    /\ UNCHANGED <<aliases, collections, points, registry>>

\* ------------------------------------------------------------- evaluation
\* A text of the evaluator is a sequence of characters; str.split() takes
\* every run of whitespace as one separator.
IsSpace(c) == c \in {" ", "\n"}

\* str.split(): the maximal runs of characters that are not whitespace.
RECURSIVE split(_)
split(text) ==
    IF text = <<>> THEN <<>>
    ELSE LET c == Head(text)
             rest == split(Tail(text))
         IN  IF IsSpace(c) THEN rest
             ELSE IF Len(text) > 1 /\ ~IsSpace(text[2])
                  THEN <<<<c>> \o Head(rest)>> \o Tail(rest)
                  ELSE <<<<c>>>> \o rest

\* ' '.join(tokens)
RECURSIVE join(_)
join(tokens) ==
    IF tokens = <<>> THEN <<>>
    ELSE IF Len(tokens) = 1 THEN tokens[1]
         ELSE tokens[1] \o <<" ">> \o join(Tail(tokens))

\* str.strip(): without the whitespace at both ends.
RECURSIVE strip(_)
strip(text) ==
    IF text = <<>> THEN <<>>
    ELSE IF IsSpace(Head(text)) THEN strip(Tail(text))
         ELSE IF IsSpace(text[Len(text)])
              THEN strip(SubSeq(text, 1, Len(text) - 1))
              ELSE text

\* def count_tokens(text) of clean_and_truncate_input.
count_tokens(text) == Len(split(text))

\* Mutant of clean_and_truncate_input: a text within the limit is returned
\* as it came.
clean_and_truncate_input_as_it_came(docs, max_tokens) ==
    LET cleaned_docs == strip(join(split(docs)))
    IN  IF count_tokens(cleaned_docs) > max_tokens
        THEN join(Take(split(cleaned_docs), max_tokens))
        ELSE docs

\* clean_and_truncate_input(docs, max_tokens=1400).
clean_and_truncate_input(docs, max_tokens) ==
    LET cleaned_docs == strip(join(split(docs)))
        token_count == count_tokens(cleaned_docs)
    IN  IF token_count > max_tokens
        THEN join(Take(split(cleaned_docs), max_tokens))
        ELSE cleaned_docs

\* The default of max_tokens.
DefaultMaxTokens == 1400

\* The texts and limits given to clean_and_truncate_input.
Chars == {" ", "\n", "a", "b"}
Docs == UNION {[1..n -> Chars] : n \in 0..MaxLen}

InitTruncate ==
    /\ aliases = <<>>
    /\ collections = {}
    /\ points = {}
    /\ registry = {}
    /\ req \in [pc : {"clean_and_truncate_input"}, docs : Docs,
                max_tokens : 0..MaxTokens, result : {None}]

\* One call of clean_and_truncate_input(docs, max_tokens).
CleanAndTruncateInput ==
    /\ req.pc = "clean_and_truncate_input"
    /\ req' = [req EXCEPT !.pc = "done",
                  !.result = clean_and_truncate_input(req.docs, req.max_tokens)]
    /\ UNCHANGED <<aliases, collections, points, registry>>

NextTruncate == CleanAndTruncateInput

SpecTruncate == InitTruncate /\ [][NextTruncate]_vars

\* TestSetGenerator.generate_ground_truth, evaluate_llm and
\* evaluate_retriever: one completion of the instruct model or of the
\* reward model each, a fixed function of the prompt.
generate_ground_truth(query) == <<"ground_truth", query>>
evaluate_llm(validation_set) ==
    [content |-> <<"llm_eval", validation_set>>]
evaluate_retriever(validation_set) ==
    [content |-> <<"retriever_eval", validation_set>>]

\* evaluate_response(retrieved, query, llm_response): a call with another
\* number of arguments raises a TypeError before the body runs.  The body
\* always asks the instruct model for the ground truth.
evaluate_response(args) ==
    IF Len(args) # 3 THEN [raised |-> TRUE]
    ELSE LET retrieved == args[1]
             query == args[2]
             llm_response == args[3]
             ground_truth == generate_ground_truth(query)
             cleaned_docs == clean_and_truncate_input(retrieved, DefaultMaxTokens)
             validation_set == [question |-> query,
                                ground_truth |-> ground_truth,
                                retrieved_docs |-> cleaned_docs,
                                llm_response |-> llm_response]
         IN  [raised |-> FALSE,
              value |-> <<evaluate_llm(validation_set),
                          evaluate_retriever(validation_set)>>]

\* The parameters of POST /api/evaluate_response.
EvaluationRequests ==
    [retrieved_context : {<<"a", "\n", " ", "b">>},
     query : Queries,
     llm_response : {<<"completion">>},
     ground_truth : {<<"truth">>}]

\* POST /api/evaluate_response: send_for_evaluation passes four arguments
\* to evaluate_response and answers 500 for whatever the call raises; the
\* contents of the two evaluations are the data of its 200 response.
SendForEvaluation(r, params) ==
    LET evaluation_result ==
            evaluate_response(<<params.retrieved_context, params.query,
                                params.llm_response, params.ground_truth>>)
        response ==
            IF evaluation_result.raised
            THEN handle_exception(500, "Error evaluating response")
            ELSE send_response(TRUE, 200, "Responses evaluated successfully.",
                     <<evaluation_result.value[1].content,
                       evaluation_result.value[2].content>>)
    IN  /\ QueryArrives(r)
        /\ req' = [req EXCEPT ![r] =
                      QueryFinish([@ EXCEPT !.kind = "evaluate_response",
                                            !.payload = params],
                                  response)]
        /\ UNCHANGED <<aliases, collections, points, registry>>

NextQuery ==
    \/ \E r \in QueryRequests, kind \in Strategies \cup {"all"},
          b \in QueryBrains, payload \in Payloads : Answer(r, kind, b, payload)
    \/ \E r \in QueryRequests : HypotheticalDocument(r)
    \/ \E r \in QueryRequests : DenseQuery(r)
    \/ \E r \in QueryRequests : Search(r)
    \/ \E r \in QueryRequests : Generate(r)
    \/ \E r \in QueryRequests : EndpointRaises(r)
    \/ \E r \in QueryRequests : Combine(r)
    \/ \E r \in QueryRequests, file \in EvalFiles : EvaluateFile(r, file)
    \/ \E r \in QueryRequests : Iterrows(r)
    \/ \E r \in QueryRequests : ResultsGet(r)
    \/ \E r \in QueryRequests, params \in EvaluationRequests :
           SendForEvaluation(r, params)

SpecQuery == InitQuery /\ [][NextQuery]_vars

\* ---------------------------------------------------------------- claims
BrainIds == {uuid_brain(r) : r \in Requests}

RegistryOf(b, f) ==
    {e \in registry : e.payload.brain_id = b /\ e.payload.file_name = f}

RegisteredIds(b, f) == {e.payload.pdf_id : e \in RegistryOf(b, f)}

PointsOfFile(b, f) ==
    {p \in points : p.collection = b /\ p.payload.metadata.file_name = f}

PointsOfPdf(pdf_id) ==
    {p \in points : p.payload.metadata.pdf_id = pdf_id}

\* An upload to brain b that found f new is still being handled.
Ingesting(b, f) ==
    \E r \in Active : /\ req[r].kind = "upload"
                      /\ req[r].brain_id = b
                      /\ f \in DOMAIN req[r].file_uuid_mapping

UploadDone(r) == req[r].kind = "upload" /\ req[r].pc = "done"

\* C1: once a file name is registered in a brain and the upload that
\* ingested it has completed, no later step (of any later upload of that
\* name to that brain) treats the name as new, adds a registry entry for it
\* or adds a point of it: the pdf_ids registered for (brain, name) and the
\* points of that name in the brain stay the same.
C1_IngestionIdempotent ==
    [][\A b \in BrainIds, f \in Files :
          (RegistryOf(b, f) # {} /\ ~Ingesting(b, f)) =>
              /\ ~Ingesting(b, f)'
              /\ RegisteredIds(b, f)' = RegisteredIds(b, f)
              /\ PointsOfFile(b, f)' = PointsOfFile(b, f)]_vars

\* C1 witness: an upload has returned after skipping a file name that an
\* earlier upload registered and indexed.
C1_Witness ==
    \E r \in Requests :
        /\ UploadDone(r)
        /\ req[r].response.status_code # 500
        /\ \E k \in 1..Len(req[r].files) :
              LET f == req[r].files[k]
              IN  /\ f \notin DOMAIN req[r].file_uuid_mapping
                  /\ Cardinality(RegisteredIds(req[r].brain_id, f)) = 1
                  /\ PointsOfFile(req[r].brain_id, f) # {}

\* C2 (as claimed): a registry entry exists only once the chunks of its
\* file have been upserted, i.e. every chunk of a registered pdf_id has its
\* point in the brain's collection.
C2_RegisterAfterUpsert ==
    \A e \in registry :
        Cardinality(PointsOfPdf(e.payload.pdf_id))
            = ChunkCount(e.payload.file_name)

\* C3 (as claimed): whenever no upload is being handled, every registry
\* entry has a point of its pdf_id in its brain, and every point's pdf_id
\* belongs to exactly one registry entry.
C3_RegistryContentCoherence ==
    (\A r \in Active : req[r].kind # "upload") =>
        /\ \A e \in registry :
              \E p \in points : /\ p.collection = e.payload.brain_id
                                /\ p.payload.metadata.pdf_id = e.payload.pdf_id
        /\ \A p \in points :
              Cardinality({e \in registry :
                  e.payload.pdf_id = p.payload.metadata.pdf_id}) = 1

\* C4: every point of a content collection carries the dense and the sparse
\* vector of its content; while a request is indexing, each document it has
\* gone through is either a point or logged as skipped, never both.
C4_NoPartialPoints ==
    /\ \A p \in points :
          /\ p.vector.dense # None
          /\ p.vector.sparse # None
          /\ p.vector.dense = <<"dense", p.payload.content>>
          /\ p.vector.sparse = <<"sparse", p.payload.content>>
    /\ \A r \in Requests :
          req[r].kind = "upload" =>
              \A j \in req[r].skipped :
                  \A p \in points : p.id # <<"point", r, j>>

\* C4 witness: a request has upserted a point and skipped a document whose
\* embedding failed.
C4_Witness ==
    \E r \in Requests :
        /\ req[r].skipped # {}
        /\ \E p \in points : p.id[2] = r

\* Every chunk of file f of upload r was gone through by the indexing loop
\* and logged as skipped for a failed embedding.
AllChunksFailed(r, f) ==
    /\ \E j \in 1..Len(req[r].all_chunks) :
          req[r].all_chunks[j].metadata.file_name = f
    /\ \A j \in 1..Len(req[r].all_chunks) :
          req[r].all_chunks[j].metadata.file_name = f => j \in req[r].skipped

\* C5 (as claimed): when every chunk of a new file of a returned upload
\* failed embedding, the registry has no entry of that file's pdf_id and the
\* response is 422 Unsupported.
C5_AllFailedNotRegistered ==
    \A r \in Requests :
        UploadDone(r) =>
            \A f \in DOMAIN req[r].file_uuid_mapping :
                AllChunksFailed(r, f) =>
                    /\ \A e \in registry :
                          e.payload.pdf_id # req[r].file_uuid_mapping[f]
                    /\ req[r].response.status_code = 422

\* C6 (as claimed): when an upload ended on an error raised for one of its
\* files (the one at position i), every file of the request with another
\* name is registered in the brain, and each chunk of the ones this request
\* found new is a point or was skipped for a failed embedding.
C6_ErrorAbortsOneFile ==
    \A r \in Requests :
        (UploadDone(r) /\ req[r].response.status_code = 500) =>
            \A k \in {x \in 1..Len(req[r].files) :
                         req[r].files[x] # req[r].files[req[r].i]} :
                LET f == req[r].files[k]
                IN  /\ RegistryOf(req[r].brain_id, f) # {}
                    /\ f \in DOMAIN req[r].file_uuid_mapping =>
                          \A j \in 1..Len(req[r].all_chunks) :
                              req[r].all_chunks[j].metadata.file_name = f =>
                                  \/ j \in req[r].skipped
                                  \/ \E p \in points : p.id = <<"point", r, j>>

\* C7 (as claimed): an upload that returned without an exception and in
\* which every file was skipped as a duplicate of an ingested file answers
\* success = true (seen when no other request is being handled).
C7_DuplicateUploadSucceeds ==
    \A r \in Requests :
        (/\ UploadDone(r)
         /\ req[r].response.status_code # 500
         /\ DOMAIN req[r].file_uuid_mapping = {}
         /\ Active = {}
         /\ \A k \in 1..Len(req[r].files) :
               PointsOfFile(req[r].brain_id, req[r].files[k]) # {}) =>
            req[r].response.success = TRUE

\* C8: a createBrain call that reads the aliases without an exception
\* answers 409 with success = false in that very step exactly when the name
\* is an alias, leaving collections and aliases as they are, and otherwise
\* goes on to create a collection under a brain_id that names no collection
\* yet; a call whose two store writes succeed answers 201 with that
\* brain_id, which is then a collection that the name is an alias of.
C8_CreateBrainAlreadyExists ==
    [][\A r \in Requests :
          /\ (/\ req[r].pc = "get_aliases"
              /\ req'[r].pc # "get_aliases"
              /\ req'[r].response.status_code # 500) =>
                 IF req[r].brain_name \in DOMAIN aliases
                 THEN /\ req'[r].pc = "done"
                      /\ req'[r].response.status_code = 409
                      /\ req'[r].response.success = FALSE
                      /\ req'[r].brain_id = <<>>
                      /\ aliases' = aliases
                      /\ collections' = collections
                 ELSE /\ req'[r].pc = "create_collection"
                      /\ req'[r].brain_id \notin collections
          /\ (/\ req[r].pc = "create_alias"
              /\ req'[r].pc = "done"
              /\ req'[r].response.status_code # 500) =>
                 /\ req'[r].response.status_code = 201
                 /\ req'[r].response.success = TRUE
                 /\ req'[r].response.data = req[r].brain_id
                 /\ req[r].brain_id \in collections'
                 /\ aliases'[req[r].brain_name] = req[r].brain_id]_vars

\* C8 witness: one createBrain call got 201 and another call with the same
\* name got 409.
C8_Witness ==
    \E r1, r2 \in Requests :
        /\ req[r1].kind = "create" /\ req[r2].kind = "create"
        /\ req[r1].brain_name = req[r2].brain_name
        /\ req[r1].pc = "done" /\ req[r1].response.status_code = 201
        /\ req[r2].pc = "done" /\ req[r2].response.status_code = 409

CreateCalls(n) ==
    {r \in Requests : req[r].kind = "create" /\ req[r].brain_name = n}

\* C9 (as claimed): for every brain_name, at most one createBrain call has
\* returned a brain_id and at most one collection has been created for it.
C9_BrainNameUnique ==
    \A n \in BrainNames :
        /\ Cardinality({r \in CreateCalls(n) :
               req[r].pc = "done" /\ req[r].response.status_code = 201}) <= 1
        /\ Cardinality({r \in CreateCalls(n) :
               <<"brain", r>> \in collections}) <= 1

AliasedCollections == {aliases[n] : n \in DOMAIN aliases}

\* C10 (as claimed): after a failed createBrain, the collection it created
\* does not remain without an alias.
C10_RollbackOnAliasFailure ==
    \A r \in Requests :
        (/\ req[r].kind = "create"
         /\ req[r].pc = "done"
         /\ req[r].response.status_code = 500) =>
            (<<"brain", r>> \in collections =>
                <<"brain", r>> \in AliasedCollections)

\* C10 (amended): the alias creation is attempted once: the step after the
\* collection was created ends the call, with 201 or, when the alias
\* creation raises, with 500, and then the collection is kept, no alias is
\* added and no alias names the collection.
C10_NoRetryNoRollback ==
    [][\A r \in Requests :
          (req[r].pc = "create_alias" /\ req'[r] # req[r]) =>
              /\ req'[r].pc = "done"
              /\ req'[r].response.status_code \in {201, 500}
              /\ req'[r].response.status_code = 500 =>
                    /\ collections' = collections
                    /\ req[r].brain_id \in collections'
                    /\ aliases' = aliases
                    /\ req[r].brain_id \notin AliasedCollections']_vars

\* C10 witness: a createBrain call has answered 500 and its collection
\* exists without an alias.
C10_Witness ==
    \E r \in Requests :
        /\ req[r].kind = "create"
        /\ req[r].pc = "done"
        /\ req[r].response.status_code = 500
        /\ <<"brain", r>> \in collections
        /\ <<"brain", r>> \notin AliasedCollections

\* C11: the file catalog is scoped per brain.  check_files(name, b) holds
\* exactly when the registry has an entry with brain_id = b and file_name =
\* name; an upload that checks a name with no such entry (whatever other
\* brains hold) gives the file a pdf_id and goes on to register it in b; and
\* a file listing of b that answers 200 returns only file_name / file_id
\* pairs of registry entries whose brain_id is b.
C11_CatalogScopedPerBrain ==
    [][/\ \A b \in CatalogBrains, f \in Files :
             check_files(f, b) <=>
                 \E e \in registry : /\ e.payload.brain_id = b
                                     /\ e.payload.file_name = f
       /\ \A r \in Requests :
             (/\ req[r].pc = "check_files"
              /\ req'[r] # req[r]
              /\ req'[r].response.status_code # 500
              /\ \A e \in registry :
                    ~(/\ e.payload.brain_id = req[r].brain_id
                      /\ e.payload.file_name = req[r].files[req[r].i])) =>
                 /\ req'[r].pc = "update_registry"
                 /\ req[r].files[req[r].i] \in DOMAIN req'[r].file_uuid_mapping
       /\ \A r \in Requests :
             (/\ req[r].pc = "list_scroll"
              /\ req'[r].response.status_code = 200) =>
                 \A x \in req'[r].response.data :
                     \E e \in registry :
                         /\ e.payload.brain_id = req[r].brain_id
                         /\ e.payload.file_name = x.file_name
                         /\ e.payload.pdf_id = x.file_id]_vars

\* C11 witness: the same file name is registered in both brains, by two
\* uploads that each found it new, and a listing of one brain has returned
\* one file.
C11_Witness ==
    \E r \in Requests, f \in Files :
        /\ \A b \in CatalogBrains :
              \E e \in registry : /\ e.payload.brain_id = b
                                  /\ e.payload.file_name = f
        /\ req[r].kind = "list_files"
        /\ req[r].pc = "done"
        /\ req[r].response.status_code = 200
        /\ Cardinality(req[r].response.data) = 1

\* Position of a document in the list handed to the reranker.
IndexIn(documents, doc) == CHOOSE i \in 1..Len(documents) : documents[i] = doc

\* C14: rerank_docs returns min(4, |D|) documents; each is a document of D,
\* none twice; ranked by its own score (the score predicted for its own
\* position) they are in non-increasing order, documents of equal score in
\* their order in D, and no document left out scores higher than one
\* returned.
C14_RerankContract ==
    req.pc = "done" =>
        LET D == req.documents
            out == req.top_4_documents
            idx(i) == IndexIn(D, out[i])
            score(i) == req.scores[idx(i)]
        IN  /\ Len(out) = Min(4, Len(D))
            /\ \A i \in 1..Len(out) : \E k \in 1..Len(D) : out[i] = D[k]
            /\ \A i, j \in 1..Len(out) :
                  i < j => /\ out[i] # out[j]
                           /\ score(i) >= score(j)
                           /\ score(i) = score(j) => idx(i) < idx(j)
            /\ \A k \in 1..Len(D) :
                  (\A i \in 1..Len(out) : out[i] # D[k]) =>
                      \A i \in 1..Len(out) : score(i) >= req.scores[k]

\* C14 witness: five documents were reranked, four came back, two of them
\* with equal scores behind a document that was retrieved after them.
C14_Witness ==
    /\ req.pc = "done"
    /\ Len(req.documents) = 5
    /\ Len(req.top_4_documents) = 4
    /\ IndexIn(req.documents, req.top_4_documents[1]) = 5
    /\ req.scores[IndexIn(req.documents, req.top_4_documents[2])]
           = req.scores[IndexIn(req.documents, req.top_4_documents[3])]

\* The retrieved context in the data of an endpoint's 200 response.
RetrieverResponse(kind, data) ==
    CASE kind = "hybrid" -> data.hybrid_retriever_response
      [] kind = "hyde" -> data.hyde_retriever_response
      [] kind = "dense" -> data.dense_retriever_response
      [] kind = "sparse" -> data.sparse_retriever_response

Answered(r) ==
    /\ req[r].kind \in Strategies
    /\ req[r].pc = "done"
    /\ req[r].response.status_code = 200

\* C12 (as claimed): a request of any strategy with an empty selected_pdfs
\* list searches the whole brain, so when the brain holds points the
\* retrieved context of its answer is not empty.
C12_EmptySelectionSearchesBrain ==
    \A r \in QueryRequests :
        (/\ Answered(r)
         /\ req[r].payload.selected_pdfs = <<>>
         /\ \E p \in points : p.collection = req[r].brain_id) =>
            RetrieverResponse(req[r].kind, req[r].response.data) # <<>>

\* The step of request r is a turn of the search loop of its endpoint.
SearchStep(r) ==
    /\ req[r].pc = "search"
    /\ req'[r].endpoint = req[r].endpoint
    /\ req'[r].i = req[r].i + 1

Order(strategy) ==
    CASE strategy = "hybrid" -> 1
      [] strategy = "hyde" -> 2
      [] strategy = "dense" -> 3
      [] strategy = "sparse" -> 4

Running(r) ==
    /\ req[r].kind = "all"
    /\ req[r].endpoint \in Strategies

C16_FailedStrategyEntry ==
    [][\A r \in QueryRequests :
          (req[r].pc = "combine" /\ req'[r].pc = "done") =>
              LET data == req'[r].response.data
                  failed == {s \in Strategies :
                                req[r].responses[s].status_code # 200}
              IN  /\ DOMAIN data = Strategies
                  /\ Cardinality(failed) = 1 =>
                        \A s \in Strategies :
                            IF s \in failed
                            THEN /\ DOMAIN data[s] = {"error", "strategy"}
                                 /\ data[s].strategy = s
                            ELSE data[s] =
                                     json_loads(req[r].responses[s].body).data]_vars

\* C17: when the same request (brain, query, selected_pdfs) was answered by
\* the hybrid endpoint and by answerAll, and the hybrid strategy succeeded
\* in both, the hybrid entry of answerAll equals the data of the hybrid
\* endpoint's response.
C17_AllHybridEqualsHybrid ==
    \A r1, r2 \in QueryRequests :
        (/\ Answered(r1)
         /\ req[r1].kind = "hybrid"
         /\ req[r2].kind = "all"
         /\ req[r2].pc = "done"
         /\ req[r2].brain_id = req[r1].brain_id
         /\ req[r2].payload = req[r1].payload
         /\ req[r2].response.data.hybrid # <<>>) =>
            req[r2].response.data.hybrid = req[r1].response.data

\* C17 witness: such a pair of answers, with a retrieved context that is
\* not empty.
C17_Witness ==
    \E r1, r2 \in QueryRequests :
        /\ Answered(r1)
        /\ req[r1].kind = "hybrid"
        /\ req[r2].kind = "all"
        /\ req[r2].pc = "done"
        /\ req[r2].response.data.hybrid = req[r1].response.data
        /\ req[r1].response.data.hybrid_retriever_response # <<>>

\* C19 (as claimed): an evaluate-file request on a workbook returns the
\* output sheets, in which every row was handled: answered and evaluated,
\* or recorded as skipped.
C19_BatchContinues ==
    \A r \in QueryRequests :
        (/\ req[r].kind = "evaluate_file"
         /\ req[r].pc = "done"
         /\ req[r].file.filename[2] = ".xlsx") =>
            /\ req[r].response.status_code = 200
            /\ Len(req[r].response.llm_sheet) = Len(req[r].file.llm_sheet)
            /\ \A k \in 1..Len(req[r].response.llm_sheet) :
                  "LLM Response" \in DOMAIN req[r].response.llm_sheet[k]

\* C20 (as claimed): while the HyDE endpoint searches, the vector it passes
\* to the dense search is the dense embedding of the hypothetical document
\* that the LLM generated for the query.
C20_HydeSearchesWithHypothetical ==
    \A r \in QueryRequests :
        (req[r].endpoint = "hyde" /\ req[r].pc = "search") =>
            req[r].dense_query = create_dense_vector(req[r].hypothetical_document)

Returned(r) == req[r].pc = "done"

\* C18 (as claimed): every response of the controller with a status code
\* outside 2xx has success = false and a detail field.
C18_ErrorsCarryDetail ==
    \A r \in Requests :
        (Returned(r) /\ req[r].response.status_code \notin 200..299) =>
            /\ req[r].response.success = FALSE
            /\ "detail" \in DOMAIN req[r].response

\* C18 (amended): every response of the controller with a status code
\* outside 2xx has success = false; a 500 (built by handle_exception) has a
\* detail field and no data field, a 409, 404 or 422 (built by
\* send_response) has an empty data field and no detail field.
C18_ErrorEnvelope ==
    \A r \in Requests :
        (Returned(r) /\ req[r].response.status_code \notin 200..299) =>
            /\ req[r].response.status_code \in {409, 404, 422, 500}
            /\ req[r].response.success = FALSE
            /\ IF req[r].response.status_code = 500
               THEN /\ "detail" \in DOMAIN req[r].response
                    /\ "data" \notin DOMAIN req[r].response
               ELSE /\ "detail" \notin DOMAIN req[r].response
                    /\ "data" \in DOMAIN req[r].response
                    /\ req[r].response.data = NoData

\* C18 witness: one request was answered 409 without a detail field and
\* another one 500 with a detail field.
C18_Witness ==
    \E r1, r2 \in Requests :
        /\ Returned(r1) /\ Returned(r2)
        /\ req[r1].response.status_code = 409
        /\ "detail" \notin DOMAIN req[r1].response
        /\ req[r2].response.status_code = 500
        /\ "detail" \in DOMAIN req[r2].response

\* The scores of the cross-encoder for the documents of a context do not
\* increase along it.
ByScore(query, context) ==
    \A k \in 1..(Len(context) - 1) :
        CROSS_ENCODER_MODEL(query, Content(context[k])) >=
            CROSS_ENCODER_MODEL(query, Content(context[k + 1]))

\* C21 (as claimed): the sparse search is reranked like the dense one.  In
\* every turn of the search loop of the sparse endpoint the documents that
\* enter the retrieved context are at most the top 4 of the sparse hits, in
\* the order of their cross-encoder scores.
C21_SparseReranked ==
    [][\A r \in QueryRequests :
          (SearchStep(r) /\ req[r].endpoint = "sparse") =>
              /\ Len(req'[r].context) <= TopK
              /\ ByScore(req[r].query, req'[r].context)]_vars

\* C22 (as claimed): whatever the number of selected PDFs, the retrieved
\* context of an answered hybrid request is the content of at most 4
\* reranked documents.
C22_HybridContextAtMostFour ==
    \A r \in QueryRequests :
        (Answered(r) /\ req[r].kind = "hybrid") =>
            Len(req[r].response.data.hybrid_retriever_response) <= TopK

C24_SearchFailureDegrades ==
    [][\A r \in QueryRequests :
          (/\ req[r].kind \in Strategies
           /\ req[r].pc = "search"
           /\ Len(req[r].selected_pdf_ids) > 1
           /\ req'[r] # req[r]) =>
              req'[r].pc \in {"search", "generate"}]_vars

\* C30 (as claimed): when all_endpoints combines four responses of status
\* 200, each entry of its data is the 'data' of the response of its own
\* strategy; in particular the sparse entry is the data of the sparse
\* endpoint's response.
C30_EntriesFromOwnStrategy ==
    [][\A r \in QueryRequests :
          (/\ req[r].kind = "all"
           /\ req[r].pc = "combine"
           /\ \A s \in Strategies : req[r].responses[s].status_code = 200
           /\ req'[r].pc = "done") =>
              \A s \in Strategies :
                  req'[r].response.data[s] =
                      Get(json_loads(req[r].responses[s].body), "data", <<>>)]_vars

\* C27 (as claimed): whatever the interleaving of concurrent uploads of one
\* file name to one brain, the registry holds at most one entry for
\* (brain_id, file_name) and the brain holds the points of that name under
\* at most one pdf_id.
C27_ConcurrentUploadsOneEntry ==
    \A b \in BrainIds, f \in Files :
        /\ Cardinality(RegistryOf(b, f)) <= 1
        /\ Cardinality({p.payload.metadata.pdf_id : p \in PointsOfFile(b, f)}) <= 1

\* C28 (as claimed): a file whose ingestion indexed no point can be ingested
\* again.  When the duplicate check of an upload runs for file F of brain B
\* while B holds no point of F and no upload is ingesting F into B, the
\* file is not skipped: it gets a pdf_id and goes on to be registered.
C28_UnindexedFileIngestedLater ==
    [][\A r \in Requests :
          (/\ req[r].kind = "upload"
           /\ req[r].pc = "check_files"
           /\ req'[r] # req[r]
           /\ req'[r].response.status_code # 500
           /\ PointsOfFile(req[r].brain_id, req[r].files[req[r].i]) = {}
           /\ ~Ingesting(req[r].brain_id, req[r].files[req[r].i])) =>
              /\ req[r].files[req[r].i] \in DOMAIN req'[r].file_uuid_mapping
              /\ req'[r].pc = "update_registry"]_vars

\* The chunks of upload r that are points of the store.
Upserted(r) ==
    {j \in 1..Len(req[r].all_chunks) :
        \E p \in points : p.id = uuid_point(r, j)}

C25_CallerGroundTruthUsed ==
    \A r \in QueryRequests :
        (req[r].kind = "evaluate_response" /\ req[r].pc = "done") =>
            LET params == req[r].payload
                validation_set ==
                    [question |-> params.query,
                     ground_truth |-> params.ground_truth,
                     retrieved_docs |->
                         clean_and_truncate_input(params.retrieved_context,
                                                  DefaultMaxTokens),
                     llm_response |-> params.llm_response]
            IN  /\ req[r].response.status_code = 200
                /\ req[r].response.data =
                       <<evaluate_llm(validation_set).content,
                         evaluate_retriever(validation_set).content>>

\* C26: clean_and_truncate_input(docs, max_tokens) returns the first
\* min(n, max_tokens) of the n whitespace-separated tokens of docs, joined
\* by single spaces: the result has at most max_tokens tokens, they are a
\* prefix of the tokens of docs, no whitespace other than one space stands
\* between two tokens and none at the ends, and the function maps its
\* result to itself.
C26_TruncateContract ==
    req.pc = "done" =>
        LET tokens == split(req.docs)
            out == split(req.result)
        IN  /\ Len(out) = Min(Len(tokens), req.max_tokens)
            /\ Len(out) <= req.max_tokens
            /\ \A k \in 1..Len(out) : out[k] = tokens[k]
            /\ \A k \in 1..Len(req.result) :
                  IsSpace(req.result[k]) =>
                      /\ req.result[k] = " "
                      /\ 1 < k /\ k < Len(req.result)
                      /\ ~IsSpace(req.result[k + 1])
            /\ clean_and_truncate_input(req.result, req.max_tokens) = req.result

\* C26 witness: a text of three tokens, separated by a newline and by a
\* space, was cut to its first two tokens joined by a space.
C26_Witness ==
    /\ req.pc = "done"
    /\ req.docs = <<"a", "\n", "b", " ", "a">>
    /\ req.max_tokens = 2
    /\ req.result = <<"a", " ", "b">>

====
